---- MODULE Spec2Model ----
(***************************************************************************)
(* Model of the code cells of 020_Encoder.ipynb:                           *)
(*   - class TransformerEncoder (__init__, forward),                       *)
(*   - class PositionalEncoding (__init__, forward),                       *)
(*   - function normalize.                                                 *)
(* Floating-point tensors are modelled in fixed point: the integer v       *)
(* stands for the real number v / ONE.  Python indices are 0-based, the    *)
(* sequences of the model are 1-based: position pos of the code is element *)
(* pos + 1 of a sequence.                                                  *)
(***************************************************************************)
EXTENDS Integers, Sequences, FiniteSets, TLC

\* ------------------------------------------------------------------------
\* Bounds of the model
\* ------------------------------------------------------------------------
MaxDModel == 8      \* PositionalEncoding: d_model ranges over 1..MaxDModel
MaxLen == 3         \* PositionalEncoding: max_len ranges over 1..MaxLen
MaxSeq == 3         \* PositionalEncoding.forward: x.size(1) ranges over 1..MaxSeq
MaxBatch == 2       \* batch size B ranges over 1..MaxBatch
MaxTokens == 4      \* TransformerEncoder.forward: src_tokens is B x T, B * T <= MaxTokens
MaxEmbed == 2       \* embedding dimension C ranges over 1..MaxEmbed
MaxLayers == 2      \* args.encoder_layers ranges over 0..MaxLayers
MaxCells == 6       \* normalize: arr has at most MaxCells entries
MaxDropCells == 3   \* a tensor given to a dropout with p > 0 has at most MaxDropCells entries

\* the value of a name that is not bound, and of a tensor that does not exist
None == <<>>

\* ------------------------------------------------------------------------
\* Fixed-point arithmetic standing for float arithmetic
\* ------------------------------------------------------------------------
\* one unit of the fixed-point representation: 1.0
ONE == 10000

\* comparison tolerance of the fixed-point representation: 0.001
Tol == ONE \div 1000

Abs(a) == IF a < 0 THEN -a ELSE a

Sign(a) == IF a < 0 THEN -1 ELSE 1

\* a / b rounded to the nearest integer, for b > 0
RDiv(a, b) == (2 * a + b) \div (2 * b)

\* product of two fixed-point numbers
MulFx(a, b) == Sign(a) * Sign(b) * RDiv(Abs(a) * Abs(b), ONE)

\* quotient of two fixed-point numbers, b > 0
DivFx(a, b) == Sign(a) * RDiv(Abs(a) * ONE, b)

\* math.log(10000.0)
LN10000 == 92103

\* exp(-1), the factor of the integer part of the argument of torch.exp
EXP_M1 == 3679

\* pi, for the argument reduction of torch.sin and torch.cos
PI_FX == 31416

RECURSIVE PowFx(_, _)
PowFx(b, k) == IF k = 0 THEN ONE ELSE MulFx(PowFx(b, k - 1), b)

\* sum of the series term, -term*f/n, term*f^2/(n(n+1)), ... : exp(-f) for term = 1
RECURSIVE ExpSeries(_, _, _)
ExpSeries(f, n, term) ==
    IF term = 0 \/ n > 12 THEN 0
    ELSE term + ExpSeries(f, n + 1, -Sign(term) * RDiv(Abs(term) * f, ONE * n))

\* torch.exp for arguments a <= 0
ExpFx(a) ==
    LET y == -a
    IN  MulFx(PowFx(EXP_M1, y \div ONE), ExpSeries(y % ONE, 1, ONE))

\* sum of the alternating series term, -term*q^2/((n+1)(n+2)), ...
RECURSIVE TrigSeries(_, _, _)
TrigSeries(q, n, term) ==
    IF term = 0 \/ n > 15 THEN 0
    ELSE term + TrigSeries(q, n + 2,
                 -Sign(term) * RDiv(RDiv(Abs(term) * q, ONE) * q, ONE * (n + 1) * (n + 2)))

\* torch.sin for arguments a >= 0
SinFx(a) ==
    LET r == a % (2 * PI_FX)
        h == PI_FX \div 2
    IN  IF r <= h THEN TrigSeries(r, 1, r)
        ELSE IF r <= PI_FX THEN TrigSeries(PI_FX - r, 1, PI_FX - r)
        ELSE IF r <= PI_FX + h THEN -TrigSeries(r - PI_FX, 1, r - PI_FX)
        ELSE -TrigSeries(2 * PI_FX - r, 1, 2 * PI_FX - r)

\* torch.cos for arguments a >= 0
CosFx(a) ==
    LET r == a % (2 * PI_FX)
        h == PI_FX \div 2
    IN  IF r <= h THEN TrigSeries(r, 0, ONE)
        ELSE IF r <= PI_FX THEN -TrigSeries(PI_FX - r, 0, ONE)
        ELSE IF r <= PI_FX + h THEN -TrigSeries(r - PI_FX, 0, ONE)
        ELSE TrigSeries(2 * PI_FX - r, 0, ONE)

\* largest r in lo..hi with r * r <= m, by bisection
RECURSIVE ISqrt(_, _, _)
ISqrt(m, lo, hi) ==
    IF lo >= hi THEN lo
    ELSE LET mid == (lo + hi + 1) \div 2
         IN  IF mid * mid <= m THEN ISqrt(m, mid, hi) ELSE ISqrt(m, lo, mid - 1)

\* math.sqrt of a positive integer n <= 16, as a fixed-point number
SqrtFx(n) ==
    LET m == n * ONE * ONE
        lo == ISqrt(m, 0, 4 * ONE)
    IN  IF m - lo * lo <= (lo + 1) * (lo + 1) - m THEN lo ELSE lo + 1

\* ------------------------------------------------------------------------
\* Tensors: a matrix is a sequence of rows, a 3-d tensor a sequence of matrices
\* ------------------------------------------------------------------------
Zeros2(r, c) == [i \in 1 .. r |-> [k \in 1 .. c |-> 0]]

Zeros3(b, l, c) == [i \in 1 .. b |-> Zeros2(l, c)]

\* a tensor whose entries all differ: entry (b, p, k) identifies its own index
Ramp3(b, l, c) ==
    [i \in 1 .. b |-> [p \in 1 .. l |-> [k \in 1 .. c |-> 1000 * i + 100 * p + 10 * k]]]

Shape3(t) == <<Len(t), Len(t[1]), Len(t[1][1])>>

Shape2(t) == <<Len(t), Len(t[1])>>

\* the dropout masks of a tensor of n elements: the flat indices that are
\* zeroed; every element is dropped independently, so every subset can be drawn
DropMasks(n) == SUBSET (1 .. n)

\* F.dropout / nn.Dropout on one element: a dropped element is zeroed, a kept
\* one is scaled by 1 / (1 - p)
DropElem(v, dropped, p) == IF dropped THEN 0 ELSE DivFx(v, ONE - p)

\* dropout of a 3-d tensor under the mask `drop` (flat indices in row-major order)
Dropout3(t, drop, p) ==
    LET l == Len(t[1])
        c == Len(t[1][1])
    IN  [i \in 1 .. Len(t) |-> [j \in 1 .. l |-> [k \in 1 .. c |->
            DropElem(t[i][j][k], ((i - 1) * l + (j - 1)) * c + k \in drop, p)]]]

\* the dropout probabilities explored: 0 and 0.5
DropoutPs == {0, ONE \div 2}

\* ------------------------------------------------------------------------
\* class PositionalEncoding
\* ------------------------------------------------------------------------
\* Position counting from 1: torch.arange(1.0, max_len + 1)
Position_FromOne(max_len) == [i \in 1 .. max_len |-> i]

\* torch.arange(0.0, max_len).unsqueeze(1): the column of positions 0..max_len-1
Position(max_len) == [i \in 1 .. max_len |-> i - 1]

\* Arange2 with step 1: the values 0, 1, 2, ...
Arange2_StepOne(d_model) == [j \in 1 .. ((d_model + 1) \div 2) |-> j - 1]

\* torch.arange(0.0, d_model, 2): the values 0, 2, 4, ... below d_model
Arange2(d_model) == [j \in 1 .. ((d_model + 1) \div 2) |-> 2 * (j - 1)]

\* div_term = exp(arange(0, d_model, 2) * -(log(10000) / d_model))
DivTerm(d_model) ==
    LET c == -RDiv(LN10000, d_model)
        a == Arange2(d_model)
    IN  [j \in 1 .. Len(a) |-> ExpFx(a[j] * c)]

\* position * div_term, broadcast to max_len x len(div_term)
Angles(max_len, dt) ==
    LET pos == Position(max_len)
    IN  [i \in 1 .. max_len |-> [j \in 1 .. Len(dt) |-> pos[i] * dt[j]]]

SinTable(max_len, dt) ==
    LET a == Angles(max_len, dt)
    IN  [i \in 1 .. max_len |-> [j \in 1 .. Len(dt) |-> SinFx(a[i][j])]]

CosTable(max_len, dt) ==
    LET a == Angles(max_len, dt)
    IN  [i \in 1 .. max_len |-> [j \in 1 .. Len(dt) |-> CosFx(a[i][j])]]

\* number of columns of the slice [:, start::2] of a table with d columns
SliceWidth(d, start) == IF d <= start THEN 0 ELSE (d - start + 1) \div 2

\* whether a source of srcw columns can be copied into a slice of w columns
\* (equal widths, or a single source column broadcast)
CanAssign(w, srcw) == srcw = w \/ srcw = 1

\* t[:, start::2] = src
AssignStrided(t, start, src) ==
    LET srcw == Len(src[1])
    IN  [i \in 1 .. Len(t) |-> [k \in 1 .. Len(t[i]) |->
            IF k - 1 >= start /\ (k - 1 - start) % 2 = 0
            THEN src[i][IF srcw = 1 THEN 1 ELSE ((k - 1 - start) \div 2) + 1]
            ELSE t[i][k]]]

\* PESlice taking the last rows of the table: self.pe[:, -L:]
PESlice_LastRows(table, L) ==
    SubSeq(table, (IF L < Len(table) THEN Len(table) - L ELSE 0) + 1, Len(table))

\* self.pe[:, :L]: the first min(L, max_len) rows of the table
PESlice(table, L) == SubSeq(table, 1, IF L < Len(table) THEN L ELSE Len(table))

\* whether x (B x L x d) and the slice (1 x R x d) broadcast together
CanBroadcast(L, R) == R = L \/ R = 1 \/ L = 1

\* x + self.pe[:, :x.size(1)], a new tensor
PEAdd(x, sl) ==
    LET L == Len(x[1])
        R == Len(sl)
        n == IF L > R THEN L ELSE R
    IN  [b \in 1 .. Len(x) |-> [p \in 1 .. n |-> [k \in 1 .. Len(sl[1]) |->
            x[b][IF L = 1 THEN 1 ELSE p][k] + sl[IF R = 1 THEN 1 ELSE p][k]]]]

\* ------------------------------------------------------------------------
\* function normalize
\* ------------------------------------------------------------------------
\* the float NaN, a value apart from every number the model computes
NaN == 0 - 2 * ONE * ONE

\* the most negative integer
IntMin == 0 - 2147483647

\* the result of casting NaN to an integer dtype depends on the platform
NaNAsInt == {0, IntMin}

\* the entries of arr explored: attention weights 0, 0.25 and 1
ArrVals == {0, ONE \div 4, ONE}

\* the arrays explored: R x C matrices, R, C >= 1, R * C <= MaxCells, of either dtype
ArrShapes == {sh \in (1 .. MaxCells) \X (1 .. MaxCells) : sh[1] * sh[2] <= MaxCells}

ArrInputs ==
    UNION {[dtype : {"float", "int"}, data : [1 .. sh[1] -> [1 .. sh[2] -> ArrVals]],
            nan_int : NaNAsInt] : sh \in ArrShapes}

RECURSIVE SeqMin(_)
SeqMin(v) ==
    IF Len(v) = 1 THEN v[1]
    ELSE LET m == SeqMin(Tail(v)) IN IF v[1] < m THEN v[1] ELSE m

RECURSIVE SeqMax(_)
SeqMax(v) ==
    IF Len(v) = 1 THEN v[1]
    ELSE LET m == SeqMax(Tail(v)) IN IF v[1] > m THEN v[1] ELSE m

\* (vals - np.min(vals)) / (np.max(vals) - np.min(vals)): a float row; 0 / 0 is NaN
MinMaxRow(vals) ==
    LET lo == SeqMin(vals)
        hi == SeqMax(vals)
    IN  [c \in 1 .. Len(vals) |->
            IF hi = lo THEN NaN ELSE RDiv((vals[c] - lo) * ONE, hi - lo)]

\* what out[rowno, :] = q leaves in out: out has the dtype of arr, so the float
\* row q is stored as it is in a float array and truncated to integers in an
\* integer array, where NaN becomes nan_int
StoredRow(q, dtype, nan_int) ==
    IF dtype = "float" THEN q
    ELSE [c \in 1 .. Len(q) |-> IF q[c] = NaN THEN nan_int ELSE q[c] \div ONE]

\* ------------------------------------------------------------------------
\* class TransformerEncoder
\* ------------------------------------------------------------------------
\* the token ids of the dictionary explored
Vocab == 0 .. 2

\* the values of embed_tokens.padding_idx explored
PadIdxs == {0, 1}

\* the weight of an embedding module nn.Embedding(len(Vocab), dim, padding_idx):
\* one row per token, the row of the padding token is zero
EmbedWeight(dim, padding_idx) ==
    [tok \in Vocab |-> [k \in 1 .. dim |->
        IF tok = padding_idx THEN 0 ELSE 1000 * (tok + 1) + 100 * k]]

\* the token of a sentence at row b, column t that is not padding
WordAt(b, t, padding_idx) ==
    LET words == Vocab \ {padding_idx}
        lo == CHOOSE w \in words : \A v \in words : w <= v
        hi == CHOOSE w \in words : \A v \in words : w >= v
    IN  IF (b + t) % 2 = 0 THEN lo ELSE hi

\* the shapes B x T of src_tokens explored
SrcShapes == {sh \in (1 .. MaxTokens) \X (1 .. MaxTokens) : sh[1] * sh[2] <= MaxTokens}

\* the padding of a batch of B sentences of at most T tokens, sorted by length:
\* row b has npad[b] padding tokens, the longest sentence comes first and has none
Paddings(B, T) ==
    {npad \in [1 .. B -> 0 .. T] :
        /\ npad[1] = 0
        /\ \A b \in 1 .. B - 1 : npad[b] <= npad[b + 1]}

\* the batches src_tokens explored for a module of embedding dimension dim and
\* dropout probability p: B x T token ids, row b padded on the left, the
\* embedded B x T x dim tensor of at most MaxDropCells entries when p > 0
SrcInputs(padding_idx, dim, p) ==
    UNION {{[b \in 1 .. sh[1] |-> [t \in 1 .. sh[2] |->
                IF t <= npad[b] THEN padding_idx ELSE WordAt(b, t, padding_idx)]]
              : npad \in Paddings(sh[1], sh[2])}
           : sh \in {h \in SrcShapes : p > 0 => h[1] * h[2] * dim <= MaxDropCells}}

\* self.embed_tokens(src_tokens): a new B x T x C tensor of weight rows
EmbedTokens(weight, src) ==
    [b \in 1 .. Len(src) |-> [t \in 1 .. Len(src[b]) |-> weight[src[b][t]]]]

\* scalar * tensor, a new tensor
Scale3(c, t) ==
    [i \in 1 .. Len(t) |-> [j \in 1 .. Len(t[i]) |-> [k \in 1 .. Len(t[i][j]) |->
        MulFx(c, t[i][j][k])]]]

\* a += b for tensors of one shape
Add3(a, b) ==
    [i \in 1 .. Len(a) |-> [j \in 1 .. Len(a[i]) |-> [k \in 1 .. Len(a[i][j]) |->
        a[i][j][k] + b[i][j][k]]]]

\* x.transpose(0, 1)
Transpose01(t) ==
    [j \in 1 .. Len(t[1]) |-> [i \in 1 .. Len(t) |-> t[i][j]]]

\* src_tokens.eq(self.padding_idx)
PaddingMask(src, padding_idx) ==
    [b \in 1 .. Len(src) |-> [t \in 1 .. Len(src[b]) |-> src[b][t] = padding_idx]]

\* mask.any()
Any2(mask) == \E b \in 1 .. Len(mask) : \E t \in 1 .. Len(mask[b]) : mask[b][t]

\* the output of the positional embedding module of the framework for
\* src_tokens: a B x T x C tensor, zero at padding tokens, that depends on the
\* position and on whether the embedding is learned
PositionalEmbedding(kind, src, padding_idx, dim) ==
    [b \in 1 .. Len(src) |-> [t \in 1 .. Len(src[b]) |-> [k \in 1 .. dim |->
        IF src[b][t] = padding_idx THEN 0
        ELSE (IF kind = "learned" THEN 7 ELSE 3) * (10 * t + k)]]]

\* the output of encoder layer number id of the framework: a tensor of the
\* shape of its input; layers with different ids do not commute
TransformerEncoderLayer(id, x) ==
    [i \in 1 .. Len(x) |-> [j \in 1 .. Len(x[i]) |-> [k \in 1 .. Len(x[i][j]) |->
        2 * x[i][j][k] + id]]]

\* the output of the layer normalization of the framework: a tensor of the
\* shape of its input
LayerNorm(x) ==
    [i \in 1 .. Len(x) |-> [j \in 1 .. Len(x[i]) |-> [k \in 1 .. Len(x[i][j]) |->
        0 - x[i][j][k] - 1]]]

\* the arguments of TransformerEncoder.__init__ explored
EncArgs ==
    [dropout : DropoutPs,
     fuse_dropout_add : BOOLEAN,
     no_token_positional_embeddings : BOOLEAN,
     encoder_learned_pos : BOOLEAN,
     encoder_layers : 0 .. MaxLayers,
     encoder_normalize_before : BOOLEAN,
     fuse_layer_norm : BOOLEAN,
     embedding_dim : 1 .. MaxEmbed,
     padding_idx : PadIdxs]

\* ------------------------------------------------------------------------
\* State
\* ------------------------------------------------------------------------
VARIABLES
    prog,           \* the code cell exercised: "pe", "norm" or "enc"
    \* PositionalEncoding
    pe_pc,          \* position in __init__ / forward
    pe_args,        \* the arguments of __init__: d_model, dropout, max_len
    pe_div_term,    \* the local div_term of __init__
    pe_table,       \* the local pe of __init__, then the buffer self.pe[0]
    pe_x,           \* the caller's tensor passed to forward
    pe_sum,         \* the local x of forward after the addition
    pe_out,         \* the value returned by forward
    pe_prev,        \* history: what the previous forward call on the same tensor returned
    \* normalize
    nm_pc,          \* position in normalize
    nm_arr,         \* the caller's array arr: its dtype and its data, and what
                    \* the platform makes of NaN cast to an integer
    nm_out,         \* the local out
    nm_rowno,       \* the loop variable rowno
    nm_ret,         \* the value returned
    nm_prev,        \* history: what the previous call on the same array returned
    \* TransformerEncoder
    enc_pc,         \* position in __init__ / forward
    enc_args,       \* the parameters args and embed_tokens of __init__; they
                    \* go out of scope when __init__ returns
    enc_self,       \* the attributes of the module: those __init__ sets, and
                    \* training, which train(mode) / eval() change
    enc_weight,     \* embed_tokens.weight
    src_tokens,     \* the caller's tensor passed to forward
    x,              \* the local x of forward
    x_contiguous,   \* x.is_contiguous() of the tensor the transposition leaves
                    \* in x, the one the first layer is given
    encoder_padding_mask,    \* the local encoder_padding_mask
    layer_padding_mask,      \* the local _encoder_padding_mask
    layer_no,       \* the number of layers of self.layers the loop has run
    enc_ret,        \* the pair returned by forward
    enc_log,        \* history: the steps forward has performed in this call
    enc_calls,      \* history: the layer calls of this call, each with its input
    enc_snap,       \* history: the values of x between the steps of this call
    enc_prev        \* history: <<r>> when the previous forward call, on the same
                    \* tensor, returned r

pe_vars == <<pe_pc, pe_args, pe_div_term, pe_table, pe_x, pe_sum, pe_out, pe_prev>>

nm_vars == <<nm_pc, nm_arr, nm_out, nm_rowno, nm_ret, nm_prev>>

enc_cfg == <<enc_args, enc_self, enc_weight>>

enc_loc == <<x, x_contiguous, encoder_padding_mask, layer_padding_mask, layer_no>>

enc_hist == <<enc_log, enc_calls, enc_snap, enc_prev>>

enc_vars == <<enc_pc, enc_cfg, src_tokens, enc_loc, enc_ret, enc_hist>>

vars == <<prog, pe_vars, nm_vars, enc_vars>>

PEOff ==
    /\ pe_pc = "off"
    /\ pe_args = None
    /\ pe_div_term = None
    /\ pe_table = None
    /\ pe_x = None
    /\ pe_sum = None
    /\ pe_out = None
    /\ pe_prev = None

\* a call PositionalEncoding(d_model, dropout, max_len) is about to run
PEInit ==
    /\ pe_pc = "ctor"
    /\ pe_args \in [d_model : 1 .. MaxDModel, dropout : DropoutPs, max_len : 1 .. MaxLen]
    /\ pe_div_term = None
    /\ pe_table = None
    /\ pe_x = None
    /\ pe_sum = None
    /\ pe_out = None
    /\ pe_prev = None

\* __init__: pe = torch.zeros(max_len, d_model); position; div_term
PEAlloc ==
    /\ prog = "pe"
    /\ pe_pc = "ctor"
    /\ pe_table' = Zeros2(pe_args.max_len, pe_args.d_model)
    /\ pe_div_term' = DivTerm(pe_args.d_model)
    /\ pe_pc' = "sin"
    /\ UNCHANGED <<prog, nm_vars, enc_vars, pe_args, pe_x, pe_sum, pe_out, pe_prev>>

\* __init__: pe[:, 0::2] = torch.sin(position * div_term)
PEAssignSin ==
    /\ prog = "pe"
    /\ pe_pc = "sin"
    /\ IF CanAssign(SliceWidth(pe_args.d_model, 0), Len(pe_div_term))
       THEN /\ pe_table' = AssignStrided(pe_table, 0, SinTable(pe_args.max_len, pe_div_term))
            /\ pe_pc' = "cos"
       ELSE /\ pe_pc' = "RuntimeError"
            /\ UNCHANGED pe_table
    /\ UNCHANGED <<prog, nm_vars, enc_vars, pe_args, pe_div_term, pe_x, pe_sum, pe_out, pe_prev>>

\* __init__: pe[:, 1::2] = torch.cos(position * div_term); the shapes of the
\* slice and of the source must agree or the assignment raises
PEAssignCos ==
    /\ prog = "pe"
    /\ pe_pc = "cos"
    /\ IF CanAssign(SliceWidth(pe_args.d_model, 1), Len(pe_div_term))
       THEN /\ pe_table' = AssignStrided(pe_table, 1, CosTable(pe_args.max_len, pe_div_term))
            /\ pe_pc' = "register"
       ELSE /\ pe_pc' = "RuntimeError"
            /\ UNCHANGED pe_table
    /\ UNCHANGED <<prog, nm_vars, enc_vars, pe_args, pe_div_term, pe_x, pe_sum, pe_out, pe_prev>>

\* __init__: pe = pe.unsqueeze(0); self.register_buffer('pe', pe)
PERegister ==
    /\ prog = "pe"
    /\ pe_pc = "register"
    /\ pe_pc' = "ready"
    /\ UNCHANGED <<prog, nm_vars, enc_vars, pe_args, pe_div_term, pe_table, pe_x, pe_sum, pe_out, pe_prev>>

\* the inputs of forward explored: B x L x d_model tensors, all zero or all
\* distinct, of at most MaxDropCells entries when the dropout has p > 0
PEInputs(d_model, p) ==
    LET shapes == {sh \in (1 .. MaxBatch) \X (1 .. MaxSeq) :
                       p > 0 => sh[1] * sh[2] * d_model <= MaxDropCells}
    IN  {Zeros3(sh[1], sh[2], d_model) : sh \in shapes}
            \cup {Ramp3(sh[1], sh[2], d_model) : sh \in shapes}

PECallable == pe_pc \in {"ready", "returned", "raised"}

\* a caller invokes forward(x) with a new tensor x
PECall ==
    /\ prog = "pe"
    /\ PECallable
    /\ pe_x' \in PEInputs(pe_args.d_model, pe_args.dropout)
    /\ pe_sum' = None
    /\ pe_out' = None
    /\ pe_prev' = None
    /\ pe_pc' = "add"
    /\ UNCHANGED <<prog, nm_vars, enc_vars, pe_args, pe_div_term, pe_table>>

\* a caller invokes forward(x) again with the tensor of the previous call
PECallAgain ==
    /\ prog = "pe"
    /\ pe_pc = "returned"
    /\ pe_prev' = pe_out
    /\ pe_sum' = None
    /\ pe_out' = None
    /\ pe_pc' = "add"
    /\ UNCHANGED <<prog, nm_vars, enc_vars, pe_args, pe_div_term, pe_table, pe_x>>

\* PEForwardAdd adding in place, x += self.pe[:, :x.size(1)]: the sum is
\* written into the caller's tensor
PEForwardAdd_InPlace ==
    /\ prog = "pe"
    /\ pe_pc = "add"
    /\ LET sl == PESlice(pe_table, Len(pe_x[1]))
       IN  IF CanBroadcast(Len(pe_x[1]), Len(sl))
           THEN /\ pe_sum' = PEAdd(pe_x, sl)
                /\ pe_x' = pe_sum'
                /\ pe_pc' = "dropout"
           ELSE /\ pe_pc' = "raised"
                /\ UNCHANGED <<pe_sum, pe_x>>
    /\ UNCHANGED <<prog, nm_vars, enc_vars, pe_args, pe_div_term, pe_table, pe_out, pe_prev>>

\* forward: x = x + Variable(self.pe[:, :x.size(1)], requires_grad=False)
\* the sum is a new tensor bound to the local name x
PEForwardAdd ==
    /\ prog = "pe"
    /\ pe_pc = "add"
    /\ LET sl == PESlice(pe_table, Len(pe_x[1]))
       IN  IF CanBroadcast(Len(pe_x[1]), Len(sl))
           THEN /\ pe_sum' = PEAdd(pe_x, sl)
                /\ pe_pc' = "dropout"
           ELSE /\ pe_pc' = "raised"
                /\ UNCHANGED pe_sum
    /\ UNCHANGED <<prog, nm_vars, enc_vars, pe_args, pe_div_term, pe_table, pe_x, pe_out, pe_prev>>

\* forward: return self.dropout(x); the module is in training mode (the
\* default of nn.Module), so the dropout acts whenever p > 0
PEForwardDropout ==
    /\ prog = "pe"
    /\ pe_pc = "dropout"
    /\ IF pe_args.dropout = 0
       THEN pe_out' = pe_sum
       ELSE \E drop \in DropMasks(Len(pe_sum) * Len(pe_sum[1]) * Len(pe_sum[1][1])) :
                pe_out' = Dropout3(pe_sum, drop, pe_args.dropout)
    /\ pe_pc' = "returned"
    /\ UNCHANGED <<prog, nm_vars, enc_vars, pe_args, pe_div_term, pe_table, pe_x, pe_sum, pe_prev>>

PENext ==
    \/ PEAlloc
    \/ PEAssignSin
    \/ PEAssignCos
    \/ PERegister
    \/ PECall
    \/ PECallAgain
    \/ PEForwardAdd
    \/ PEForwardDropout

NormOff ==
    /\ nm_pc = "off"
    /\ nm_arr = None
    /\ nm_out = None
    /\ nm_rowno = None
    /\ nm_ret = None
    /\ nm_prev = None

\* a call normalize(arr) is about to run
NormInit ==
    /\ nm_pc = "start"
    /\ nm_arr \in ArrInputs
    /\ nm_arr.dtype = "float" => nm_arr.nan_int = 0
    /\ nm_out = None
    /\ nm_rowno = None
    /\ nm_ret = None
    /\ nm_prev = None

\* out = np.zeros_like(arr); the loop starts at rowno = 0
NormStart ==
    /\ prog = "norm"
    /\ nm_pc = "start"
    /\ nm_out' = Zeros2(Len(nm_arr.data), Len(nm_arr.data[1]))
    /\ nm_rowno' = 0
    /\ nm_pc' = "loop"
    /\ UNCHANGED <<prog, pe_vars, enc_vars, nm_arr, nm_ret, nm_prev>>

\* NormRow with the minimum and maximum of the whole array:
\* (vals - np.min(arr)) / (np.max(arr) - np.min(arr))
NormRow_GlobalMinMax ==
    /\ prog = "norm"
    /\ nm_pc = "loop"
    /\ nm_rowno < Len(nm_arr.data)
    /\ LET lo == SeqMin([r \in 1 .. Len(nm_arr.data) |-> SeqMin(nm_arr.data[r])])
           hi == SeqMax([r \in 1 .. Len(nm_arr.data) |-> SeqMax(nm_arr.data[r])])
           vals == nm_arr.data[nm_rowno + 1]
           q == [c \in 1 .. Len(vals) |->
                    IF hi = lo THEN NaN ELSE RDiv((vals[c] - lo) * ONE, hi - lo)]
       IN  nm_out' = [nm_out EXCEPT ![nm_rowno + 1] =
                         StoredRow(q, nm_arr.dtype, nm_arr.nan_int)]
    /\ nm_rowno' = nm_rowno + 1
    /\ UNCHANGED <<prog, pe_vars, enc_vars, nm_pc, nm_arr, nm_ret, nm_prev>>

\* one iteration of the loop: vals = arr[rowno, :]; out[rowno, :] = ...
NormRow ==
    /\ prog = "norm"
    /\ nm_pc = "loop"
    /\ nm_rowno < Len(nm_arr.data)
    /\ nm_out' = [nm_out EXCEPT ![nm_rowno + 1] =
                      StoredRow(MinMaxRow(nm_arr.data[nm_rowno + 1]), nm_arr.dtype,
                                nm_arr.nan_int)]
    /\ nm_rowno' = nm_rowno + 1
    /\ UNCHANGED <<prog, pe_vars, enc_vars, nm_pc, nm_arr, nm_ret, nm_prev>>

\* the loop is exhausted: return out
NormReturn ==
    /\ prog = "norm"
    /\ nm_pc = "loop"
    /\ nm_rowno = Len(nm_arr.data)
    /\ nm_ret' = nm_out
    /\ nm_pc' = "returned"
    /\ UNCHANGED <<prog, pe_vars, enc_vars, nm_arr, nm_out, nm_rowno, nm_prev>>

\* the caller invokes normalize again with the array of the previous call
NormCallAgain ==
    /\ prog = "norm"
    /\ nm_pc = "returned"
    /\ nm_prev' = nm_ret
    /\ nm_out' = None
    /\ nm_rowno' = None
    /\ nm_ret' = None
    /\ nm_pc' = "start"
    /\ UNCHANGED <<prog, pe_vars, enc_vars, nm_arr>>

NormNext ==
    \/ NormStart
    \/ NormRow
    \/ NormReturn
    \/ NormCallAgain

NoSnap == [embedded |-> None, scaled |-> None, positions |-> None,
           pre_dropout |-> None, post_dropout |-> None, post_layers |-> None]

EncOff ==
    /\ enc_pc = "off"
    /\ enc_args = None
    /\ enc_self = None
    /\ enc_weight = None
    /\ src_tokens = None
    /\ x = None
    /\ x_contiguous = TRUE
    /\ encoder_padding_mask = None
    /\ layer_padding_mask = None
    /\ layer_no = 0
    /\ enc_ret = None
    /\ enc_log = <<>>
    /\ enc_calls = <<>>
    /\ enc_snap = NoSnap
    /\ enc_prev = None

\* a call TransformerEncoder(args, embed_tokens) is about to run
EncInit ==
    /\ enc_pc = "ctor"
    /\ enc_args \in EncArgs
    /\ enc_self = None
    /\ enc_weight = EmbedWeight(enc_args.embedding_dim, enc_args.padding_idx)
    /\ src_tokens = None
    /\ x = None
    /\ x_contiguous = TRUE
    /\ encoder_padding_mask = None
    /\ layer_padding_mask = None
    /\ layer_no = 0
    /\ enc_ret = None
    /\ enc_log = <<>>
    /\ enc_calls = <<>>
    /\ enc_snap = NoSnap
    /\ enc_prev = None

\* NewEncoder with the test of no_token_positional_embeddings inverted
NewEncoder_PosInverted(args) ==
    [dropout |-> args.dropout,
     fuse_dropout_add |-> args.fuse_dropout_add,
     padding_idx |-> args.padding_idx,
     embed_scale |-> SqrtFx(args.embedding_dim),
     embed_positions |->
         IF args.no_token_positional_embeddings
         THEN (IF args.encoder_learned_pos THEN "learned" ELSE "sinusoidal")
         ELSE "None",
     layers |-> [i \in 1 .. args.encoder_layers |-> i],
     normalize |-> args.encoder_normalize_before,
     layer_norm |->
         IF args.encoder_normalize_before
         THEN (IF args.fuse_layer_norm THEN "FusedLayerNorm" ELSE "LayerNorm")
         ELSE "absent",
     training |-> TRUE]

\* the attributes __init__ sets; layer_norm is "absent" when no attribute
\* self.layer_norm is created; training is set by super().__init__(): a new
\* module is in training mode
NewEncoder(args) ==
    [dropout |-> args.dropout,
     fuse_dropout_add |-> args.fuse_dropout_add,
     padding_idx |-> args.padding_idx,
     embed_scale |-> SqrtFx(args.embedding_dim),
     embed_positions |->
         IF ~args.no_token_positional_embeddings
         THEN (IF args.encoder_learned_pos THEN "learned" ELSE "sinusoidal")
         ELSE "None",
     layers |-> [i \in 1 .. args.encoder_layers |-> i],
     normalize |-> args.encoder_normalize_before,
     layer_norm |->
         IF args.encoder_normalize_before
         THEN (IF args.fuse_layer_norm THEN "FusedLayerNorm" ELSE "LayerNorm")
         ELSE "absent",
     training |-> TRUE]

\* the body of TransformerEncoder.__init__
EncCtor ==
    /\ prog = "enc"
    /\ enc_pc = "ctor"
    /\ enc_self' = NewEncoder(enc_args)
    /\ enc_pc' = "constructed"
    /\ UNCHANGED <<prog, pe_vars, nm_vars, enc_args, enc_weight, src_tokens, enc_loc,
                   enc_ret, enc_hist>>

\* __init__ returns: its parameters go out of scope
EncCtorReturn ==
    /\ prog = "enc"
    /\ enc_pc = "constructed"
    /\ enc_args' = None
    /\ enc_pc' = "ready"
    /\ UNCHANGED <<prog, pe_vars, nm_vars, enc_self, enc_weight, src_tokens, enc_loc,
                   enc_ret, enc_hist>>

\* the locals and the history of a call that starts
EncEnter ==
    /\ x' = None
    /\ x_contiguous' = TRUE
    /\ encoder_padding_mask' = None
    /\ layer_padding_mask' = None
    /\ layer_no' = 0
    /\ enc_ret' = None
    /\ enc_log' = <<>>
    /\ enc_calls' = <<>>
    /\ enc_snap' = NoSnap
    /\ enc_pc' = "embed"

\* between two calls of forward a caller switches the mode of the module with
\* train(mode) or eval(), the methods of nn.Module: self.training = mode. The
\* locals and the result of a call that has returned are dropped
EncTrain ==
    /\ prog = "enc"
    /\ enc_pc \in {"ready", "returned"}
    /\ \E mode \in BOOLEAN :
           /\ mode # enc_self.training
           /\ enc_self' = [enc_self EXCEPT !.training = mode]
    /\ src_tokens' = None
    /\ x' = None
    /\ x_contiguous' = TRUE
    /\ encoder_padding_mask' = None
    /\ layer_padding_mask' = None
    /\ layer_no' = 0
    /\ enc_ret' = None
    /\ enc_log' = <<>>
    /\ enc_calls' = <<>>
    /\ enc_snap' = NoSnap
    /\ enc_prev' = None
    /\ enc_pc' = "ready"
    /\ UNCHANGED <<prog, pe_vars, nm_vars, enc_args, enc_weight>>

\* a caller invokes forward(src_tokens, src_lengths) on the module
EncCall ==
    /\ prog = "enc"
    /\ enc_pc = "ready"
    /\ src_tokens' \in SrcInputs(enc_self.padding_idx, Len(enc_weight[0]), enc_self.dropout)
    /\ enc_prev' = None
    /\ EncEnter
    /\ UNCHANGED <<prog, pe_vars, nm_vars, enc_cfg>>

\* a caller invokes forward again with the batch of the previous call
EncCallAgain ==
    /\ prog = "enc"
    /\ enc_pc = "returned"
    /\ enc_prev' = <<enc_ret>>
    /\ EncEnter
    /\ UNCHANGED <<prog, pe_vars, nm_vars, enc_cfg, src_tokens>>

\* forward: x = self.embed_scale * self.embed_tokens(src_tokens)
EncEmbed ==
    /\ prog = "enc"
    /\ enc_pc = "embed"
    /\ LET e == EmbedTokens(enc_weight, src_tokens)
       IN  /\ x' = Scale3(enc_self.embed_scale, e)
           /\ enc_snap' = [enc_snap EXCEPT !.embedded = e, !.scaled = x']
    /\ enc_log' = Append(enc_log, "embed_scale")
    /\ enc_pc' = "positions"
    /\ UNCHANGED <<prog, pe_vars, nm_vars, enc_cfg, src_tokens, x_contiguous,
                   encoder_padding_mask, layer_padding_mask, layer_no, enc_ret,
                   enc_calls, enc_prev>>

\* EncAddPositions with the scale applied to the sum of the token and the
\* positional embedding: x = self.embed_scale * (embed_tokens + embed_positions)
EncAddPositions_ScaleSum ==
    /\ prog = "enc"
    /\ enc_pc = "positions"
    /\ IF enc_self.embed_positions # "None"
       THEN LET pos == PositionalEmbedding(enc_self.embed_positions, src_tokens,
                                           enc_self.padding_idx, Len(enc_weight[0]))
            IN  /\ x' = Scale3(enc_self.embed_scale, Add3(enc_snap.embedded, pos))
                /\ enc_snap' = [enc_snap EXCEPT !.positions = pos, !.pre_dropout = x']
                /\ enc_log' = Append(enc_log, "add_positions")
       ELSE /\ enc_snap' = [enc_snap EXCEPT !.pre_dropout = x]
            /\ UNCHANGED <<x, enc_log>>
    /\ enc_pc' = "dropout"
    /\ UNCHANGED <<prog, pe_vars, nm_vars, enc_cfg, src_tokens, x_contiguous,
                   encoder_padding_mask, layer_padding_mask, layer_no, enc_ret,
                   enc_calls, enc_prev>>

\* forward: if self.embed_positions is not None: x += self.embed_positions(src_tokens)
EncAddPositions ==
    /\ prog = "enc"
    /\ enc_pc = "positions"
    /\ IF enc_self.embed_positions # "None"
       THEN LET pos == PositionalEmbedding(enc_self.embed_positions, src_tokens,
                                           enc_self.padding_idx, Len(enc_weight[0]))
            IN  /\ x' = Add3(x, pos)
                /\ enc_snap' = [enc_snap EXCEPT !.positions = pos, !.pre_dropout = x']
                /\ enc_log' = Append(enc_log, "add_positions")
       ELSE /\ enc_snap' = [enc_snap EXCEPT !.pre_dropout = x]
            /\ UNCHANGED <<x, enc_log>>
    /\ enc_pc' = "dropout"
    /\ UNCHANGED <<prog, pe_vars, nm_vars, enc_cfg, src_tokens, x_contiguous,
                   encoder_padding_mask, layer_padding_mask, layer_no, enc_ret,
                   enc_calls, enc_prev>>

\* forward: x = F.dropout(x, p=self.dropout, training=self.training)
EncDropout ==
    /\ prog = "enc"
    /\ enc_pc = "dropout"
    /\ IF enc_self.training /\ enc_self.dropout > 0
       THEN \E drop \in DropMasks(Len(x) * Len(x[1]) * Len(x[1][1])) :
                x' = Dropout3(x, drop, enc_self.dropout)
       ELSE x' = x
    /\ enc_snap' = [enc_snap EXCEPT !.post_dropout = x']
    /\ enc_log' = Append(enc_log, "dropout")
    /\ enc_pc' = "transpose"
    /\ UNCHANGED <<prog, pe_vars, nm_vars, enc_cfg, src_tokens, x_contiguous,
                   encoder_padding_mask, layer_padding_mask, layer_no, enc_ret,
                   enc_calls, enc_prev>>

\* EncTranspose with the transposition in the fused branch only
EncTranspose_FusedOnly ==
    /\ prog = "enc"
    /\ enc_pc = "transpose"
    /\ x' = IF enc_self.fuse_dropout_add THEN Transpose01(x) ELSE x
    /\ x_contiguous' = TRUE
    /\ enc_log' = Append(enc_log, "transpose")
    /\ enc_pc' = "mask"
    /\ UNCHANGED <<prog, pe_vars, nm_vars, enc_cfg, src_tokens, encoder_padding_mask,
                   layer_padding_mask, layer_no, enc_ret, enc_calls, enc_snap, enc_prev>>

\* forward: B x T x C -> T x B x C. transpose(0, 1) of the contiguous
\* B x T x C tensor is a view with the strides of the two dimensions swapped:
\* it is contiguous iff B = 1 or T = 1 (the stride of a dimension of size 1
\* does not count); contiguous() makes it contiguous whatever the shape
EncTranspose ==
    /\ prog = "enc"
    /\ enc_pc = "transpose"
    /\ x' = Transpose01(x)
    /\ x_contiguous' = (enc_self.fuse_dropout_add \/ Len(x) = 1 \/ Len(x[1]) = 1)
    /\ enc_log' = Append(enc_log, "transpose")
    /\ enc_pc' = "mask"
    /\ UNCHANGED <<prog, pe_vars, nm_vars, enc_cfg, src_tokens, encoder_padding_mask,
                   layer_padding_mask, layer_no, enc_ret, enc_calls, enc_snap, enc_prev>>

\* forward: compute padding mask
EncPaddingMask ==
    /\ prog = "enc"
    /\ enc_pc = "mask"
    /\ encoder_padding_mask' = PaddingMask(src_tokens, enc_self.padding_idx)
    /\ layer_padding_mask' =
           IF ~Any2(encoder_padding_mask') THEN None ELSE encoder_padding_mask'
    /\ enc_log' = Append(enc_log, "padding_mask")
    /\ enc_pc' = "layers"
    /\ UNCHANGED <<prog, pe_vars, nm_vars, enc_cfg, src_tokens, x, x_contiguous,
                   layer_no, enc_ret, enc_calls, enc_snap, enc_prev>>

\* EncLayer with every layer fed the input of the first one:
\* y = layer(x, mask) with x never rebound inside the loop
EncLayer_NotChained ==
    /\ prog = "enc"
    /\ enc_pc = "layers"
    /\ layer_no < Len(enc_self.layers)
    /\ LET layer == enc_self.layers[layer_no + 1]
           first == IF enc_calls = <<>> THEN x ELSE enc_calls[1].input
       IN  /\ x' = TransformerEncoderLayer(layer, first)
           /\ enc_calls' = Append(enc_calls,
                  [layer |-> layer, input |-> first, mask |-> layer_padding_mask,
                   output |-> x'])
    /\ layer_no' = layer_no + 1
    /\ enc_log' = Append(enc_log, "layer")
    /\ UNCHANGED <<prog, pe_vars, nm_vars, enc_pc, enc_cfg, src_tokens, x_contiguous,
                   encoder_padding_mask, layer_padding_mask, enc_ret, enc_snap,
                   enc_prev>>

\* forward: one iteration of 'for layer in self.layers': x = layer(x, mask)
EncLayer ==
    /\ prog = "enc"
    /\ enc_pc = "layers"
    /\ layer_no < Len(enc_self.layers)
    /\ LET layer == enc_self.layers[layer_no + 1]
       IN  /\ x' = TransformerEncoderLayer(layer, x)
           /\ enc_calls' = Append(enc_calls,
                  [layer |-> layer, input |-> x, mask |-> layer_padding_mask,
                   output |-> x'])
    /\ layer_no' = layer_no + 1
    /\ enc_log' = Append(enc_log, "layer")
    /\ UNCHANGED <<prog, pe_vars, nm_vars, enc_pc, enc_cfg, src_tokens, x_contiguous,
                   encoder_padding_mask, layer_padding_mask, enc_ret, enc_snap,
                   enc_prev>>

\* EncLayerNorm without the test of self.normalize: x = self.layer_norm(x) on
\* every call
EncLayerNorm_Unguarded ==
    /\ prog = "enc"
    /\ enc_pc = "layers"
    /\ layer_no = Len(enc_self.layers)
    /\ enc_snap' = [enc_snap EXCEPT !.post_layers = x]
    /\ IF enc_self.layer_norm = "absent"
       THEN /\ enc_pc' = "AttributeError"
            /\ UNCHANGED <<x, enc_log>>
       ELSE /\ x' = LayerNorm(x)
            /\ enc_log' = Append(enc_log, "layer_norm")
            /\ enc_pc' = "return"
    /\ UNCHANGED <<prog, pe_vars, nm_vars, enc_cfg, src_tokens, x_contiguous,
                   encoder_padding_mask, layer_padding_mask, layer_no, enc_ret,
                   enc_calls, enc_prev>>

\* forward: the loop is exhausted; if self.normalize: x = self.layer_norm(x).
\* Reading self.layer_norm when the attribute is absent raises AttributeError
EncLayerNorm ==
    /\ prog = "enc"
    /\ enc_pc = "layers"
    /\ layer_no = Len(enc_self.layers)
    /\ enc_snap' = [enc_snap EXCEPT !.post_layers = x]
    /\ IF enc_self.normalize
       THEN IF enc_self.layer_norm = "absent"
            THEN /\ enc_pc' = "AttributeError"
                 /\ UNCHANGED <<x, enc_log>>
            ELSE /\ x' = LayerNorm(x)
                 /\ enc_log' = Append(enc_log, "layer_norm")
                 /\ enc_pc' = "return"
       ELSE /\ enc_pc' = "return"
            /\ UNCHANGED <<x, enc_log>>
    /\ UNCHANGED <<prog, pe_vars, nm_vars, enc_cfg, src_tokens, x_contiguous,
                   encoder_padding_mask, layer_padding_mask, layer_no, enc_ret,
                   enc_calls, enc_prev>>

\* EncReturn with the mask handed to the layers returned:
\* return x, _encoder_padding_mask
EncReturn_LayerMask ==
    /\ prog = "enc"
    /\ enc_pc = "return"
    /\ enc_ret' = [x |-> x, encoder_padding_mask |-> layer_padding_mask]
    /\ enc_log' = Append(enc_log, "return")
    /\ enc_pc' = "returned"
    /\ UNCHANGED <<prog, pe_vars, nm_vars, enc_cfg, src_tokens, enc_loc, enc_calls,
                   enc_snap, enc_prev>>

\* forward: return x, encoder_padding_mask
EncReturn ==
    /\ prog = "enc"
    /\ enc_pc = "return"
    /\ enc_ret' = [x |-> x, encoder_padding_mask |-> encoder_padding_mask]
    /\ enc_log' = Append(enc_log, "return")
    /\ enc_pc' = "returned"
    /\ UNCHANGED <<prog, pe_vars, nm_vars, enc_cfg, src_tokens, enc_loc, enc_calls,
                   enc_snap, enc_prev>>

EncNext ==
    \/ EncCtor
    \/ EncCtorReturn
    \/ EncTrain
    \/ EncCall
    \/ EncCallAgain
    \/ EncEmbed
    \/ EncAddPositions
    \/ EncDropout
    \/ EncTranspose
    \/ EncPaddingMask
    \/ EncLayer
    \/ EncLayerNorm
    \/ EncReturn

Init ==
    /\ prog \in {"pe", "norm", "enc"}
    /\ IF prog = "pe" THEN PEInit ELSE PEOff
    /\ IF prog = "norm" THEN NormInit ELSE NormOff
    /\ IF prog = "enc" THEN EncInit ELSE EncOff

Next ==
    \/ PENext
    \/ NormNext
    \/ EncNext

Spec == Init /\ [][Next]_vars

\* ------------------------------------------------------------------------
\* Properties
\* ------------------------------------------------------------------------
IsPrefix(a, b) == Len(a) <= Len(b) /\ a = SubSeq(b, 1, Len(a))

Count(seq, v) == Cardinality({i \in 1 .. Len(seq) : seq[i] = v})

\* forward is running or has returned, so enc_self and src_tokens are set
EncInForward ==
    enc_pc \in {"embed", "positions", "dropout", "transpose", "mask", "layers",
                "return", "returned"}

\* dropout leaves the tensor alone: p = 0 or the module is in evaluation mode
EncDropoutOff == ~(enc_self.training /\ enc_self.dropout > 0)

\* the steps of one forward call of the module, in the order of the source
StepsInOrder ==
    <<"embed_scale">>
        \o (IF enc_self.embed_positions # "None" THEN <<"add_positions">> ELSE <<>>)
        \o <<"dropout", "transpose", "padding_mask">>
        \o [i \in 1 .. Len(enc_self.layers) |-> "layer"]
        \o (IF enc_self.normalize THEN <<"layer_norm">> ELSE <<>>)
        \o <<"return">>

\* every entry of the tensor b is the entry of a zeroed or scaled by 1 / (1 - p)
IsDropoutOf(a, b, p) ==
    /\ Shape3(a) = Shape3(b)
    /\ \A i \in 1 .. Len(a) : \A j \in 1 .. Len(a[i]) : \A k \in 1 .. Len(a[i][j]) :
           b[i][j][k] \in {0, DivFx(a[i][j][k], ONE - p)}

\* the six steps of the claim, none of them optional but the last
AllSteps ==
    <<"embed_scale", "add_positions", "dropout", "transpose", "padding_mask">>
        \o [i \in 1 .. Len(enc_self.layers) |-> "layer"]
        \o (IF enc_self.normalize THEN <<"layer_norm">> ELSE <<>>)
        \o <<"return">>

\* C1 as stated: every call of forward performs all of (1) scale the token
\* embedding, (2) add the positional embedding, (3) dropout, (4) transpose,
\* (5) the layers, (6) the final normalization when enabled, in this order,
\* and skips none of them.
C1_NoStepSkipped == enc_pc = "returned" => enc_log = AllSteps

\* C1, amended: forward performs its steps in one fixed order: the token
\* embedding is scaled by sqrt(embed_dim); then, when self.embed_positions is
\* not None, the positional embedding is added, unscaled, to the scaled token
\* embedding; then dropout acts on the result; then the tensor is transposed;
\* then the layers run; then the final layer normalization, when enabled, runs
\* last.  No step is repeated or reordered, and only the two optional steps
\* can be skipped.
C1_FixedOrder ==
    EncInForward =>
        /\ IsPrefix(enc_log, StepsInOrder)
        /\ enc_pc = "returned" => enc_log = StepsInOrder
        /\ enc_snap.scaled # None =>
               LET scale == SqrtFx(Len(enc_weight[0]))
               IN  \A b \in 1 .. Len(src_tokens) : \A t \in 1 .. Len(src_tokens[b]) :
                       \A k \in 1 .. Len(enc_weight[0]) :
                           enc_snap.scaled[b][t][k] =
                               MulFx(scale, enc_weight[src_tokens[b][t]][k])
        /\ enc_snap.pre_dropout # None =>
               IF enc_self.embed_positions # "None"
               THEN \A b \in 1 .. Len(src_tokens) : \A t \in 1 .. Len(src_tokens[b]) :
                        \A k \in 1 .. Len(enc_weight[0]) :
                            enc_snap.pre_dropout[b][t][k] =
                                enc_snap.scaled[b][t][k] + enc_snap.positions[b][t][k]
               ELSE enc_snap.pre_dropout = enc_snap.scaled
        /\ enc_snap.post_dropout # None =>
               IF EncDropoutOff
               THEN enc_snap.post_dropout = enc_snap.pre_dropout
               ELSE IsDropoutOf(enc_snap.pre_dropout, enc_snap.post_dropout,
                                enc_self.dropout)
        /\ enc_calls # <<>> => enc_calls[1].input = Transpose01(enc_snap.post_dropout)
        /\ enc_pc \in {"return", "returned"} =>
               x = IF enc_self.normalize THEN LayerNorm(enc_snap.post_layers)
                   ELSE enc_snap.post_layers

\* a call of a module with positional embeddings, two layers and the final
\* normalization has returned; the scale factor is sqrt(2), and some token is
\* not padding, so its positional term is not zero
C1_Witness ==
    /\ enc_pc = "returned"
    /\ enc_self.embed_positions # "None"
    /\ Len(enc_self.layers) = 2
    /\ enc_self.normalize
    /\ Len(enc_weight[0]) = 2
    /\ \E b \in 1 .. Len(src_tokens) : \E t \in 1 .. Len(src_tokens[b]) :
           enc_snap.positions[b][t][1] # 0

\* C2: after construction self.layers holds exactly args.encoder_layers
\* layers; one forward call invokes every layer exactly once, in list order,
\* the output of a layer being the input of the next; the token embedding is
\* computed once, before the first layer; the loop ends after exactly
\* len(self.layers) layer calls, and with no layer the tensor reaches the final
\* step unchanged.
C2_LayersOnceInOrder ==
    /\ enc_pc = "constructed" => Len(enc_self.layers) = enc_args.encoder_layers
    /\ EncInForward =>
           /\ Len(enc_calls) = layer_no
           /\ layer_no <= Len(enc_self.layers)
           /\ \A i \in 1 .. Len(enc_calls) :
                  /\ enc_calls[i].layer = enc_self.layers[i]
                  /\ enc_calls[i].output = TransformerEncoderLayer(i, enc_calls[i].input)
                  /\ i > 1 => enc_calls[i].input = enc_calls[i - 1].output
           /\ enc_calls # <<>> =>
                  /\ enc_log[1] = "embed_scale"
                  /\ Count(enc_log, "embed_scale") = 1
                  /\ enc_calls[1].input = Transpose01(enc_snap.post_dropout)
           /\ enc_pc \in {"return", "returned"} =>
                  /\ layer_no = Len(enc_self.layers)
                  /\ Count(enc_log, "layer") = Len(enc_self.layers)
                  /\ enc_snap.post_layers =
                         IF enc_calls = <<>> THEN Transpose01(enc_snap.post_dropout)
                         ELSE enc_calls[Len(enc_calls)].output

\* a call of a module with two layers has returned
C2_Witness ==
    /\ enc_pc = "returned"
    /\ Len(enc_self.layers) = 2
    /\ Len(enc_calls) = 2
    /\ enc_calls[2].input # enc_calls[1].input


RECURSIVE Pow10(_)
Pow10(n) == IF n = 0 THEN 1 ELSE 10 * Pow10(n - 1)

\* __init__ of PositionalEncoding has assigned both halves of the table
PEBuilt == pe_pc \in {"register", "ready", "add", "dropout", "returned", "raised"}

PEEven == pe_args.d_model % 2 = 0

\* C3: for an even d_model, pe[0, pos, 2i] = sin(pos / 10000^(2i/d_model)) and
\* pe[0, pos, 2i+1] = cos(pos / 10000^(2i/d_model)) for every position pos and
\* every i < d_model / 2: the two columns of a pair share one frequency, which
\* depends on i and d_model only.  10000^(2i/d_model) = 10^(8i/d_model) lies
\* between 10^floor(8i/d_model) and 10^ceil(8i/d_model), and where 8i/d_model
\* is an integer the entries are compared, within Tol, with the sine and
\* cosine of pos / 10^(8i/d_model).
C3_Sinusoid ==
    (PEBuilt /\ PEEven) =>
        LET d == pe_args.d_model
        IN  /\ Len(pe_div_term) = d \div 2
            /\ Shape2(pe_table) = <<pe_args.max_len, d>>
            /\ \A i \in 0 .. (d \div 2) - 1 :
                   LET f == pe_div_term[i + 1]
                       e == 8 * i
                   IN  /\ f <= RDiv(ONE, Pow10(e \div d)) + Tol
                       /\ f >= RDiv(ONE, Pow10((e + d - 1) \div d)) - Tol
                       /\ \A pos \in 0 .. pe_args.max_len - 1 :
                              /\ pe_table[pos + 1][2 * i + 1] = SinFx(pos * f)
                              /\ pe_table[pos + 1][2 * i + 2] = CosFx(pos * f)
                              /\ e % d = 0 =>
                                     LET a == RDiv(pos * ONE, Pow10(e \div d))
                                     IN  /\ Abs(pe_table[pos + 1][2 * i + 1] - SinFx(a)) <= Tol
                                         /\ Abs(pe_table[pos + 1][2 * i + 2] - CosFx(a)) <= Tol

\* the table for d_model = 8 and max_len = MaxLen is built: the frequencies are
\* 1, 1/10, 1/100 and 1/1000
C3_Witness ==
    /\ pe_pc = "ready"
    /\ pe_args.d_model = 8
    /\ pe_args.max_len = MaxLen
    /\ pe_table[MaxLen][1] # 0
    /\ pe_table[MaxLen][3] # 0

\* C4: for every even d_model the encoding of the first position is the
\* alternating vector 0, 1, 0, 1, ..., 0, 1.
C4_FirstPosition ==
    (PEBuilt /\ PEEven) =>
        \A k \in 0 .. pe_args.d_model - 1 :
            pe_table[1][k + 1] = IF k % 2 = 0 THEN 0 ELSE ONE

\* the table for d_model = 4 is built, with more than one row
C4_Witness ==
    /\ pe_pc = "ready"
    /\ pe_args.d_model = 4
    /\ pe_args.max_len > 1
    /\ pe_table[2] # pe_table[1]

\* C5: for x of shape (B, L, d_model) with L <= max_len, forward computes
\* before dropout x[b, p, k] + pe[0, p, k]: position p gets row p of the table,
\* the same for every batch element, and only the first L rows are used; with
\* dropout 0 and an all-zero x the output is the first L rows of the table.
C5_ForwardAddsRows ==
    (pe_pc \in {"dropout", "returned", "raised"}
         /\ Len(pe_x[1]) <= pe_args.max_len) =>
        /\ pe_pc # "raised"
        /\ Shape3(pe_sum) = Shape3(pe_x)
        /\ \A b \in 1 .. Len(pe_x) : \A p \in 1 .. Len(pe_x[b]) :
               \A k \in 1 .. pe_args.d_model :
                   pe_sum[b][p][k] = pe_x[b][p][k] + pe_table[p][k]
        /\ (pe_pc = "returned" /\ pe_args.dropout = 0
                /\ pe_x = Zeros3(Len(pe_x), Len(pe_x[1]), pe_args.d_model)) =>
               \A b \in 1 .. Len(pe_x) :
                   pe_out[b] = SubSeq(pe_table, 1, Len(pe_x[1]))

\* forward has returned for an all-zero x of two batch elements and fewer
\* positions than the table has rows, without dropout
C5_Witness ==
    /\ pe_pc = "returned"
    /\ pe_args.dropout = 0
    /\ Len(pe_x) = 2
    /\ Len(pe_x[1]) = 2
    /\ pe_args.max_len = 3
    /\ pe_args.d_model = 4
    /\ pe_x = Zeros3(2, 2, 4)
    /\ pe_out[2][2] = pe_table[2]

\* C6: for every d_model >= 1, even or odd, and max_len >= 1, __init__
\* completes and yields a max_len x d_model table whose even columns hold the
\* sines and whose odd columns hold the cosines.
C6_EveryDModelBuilds ==
    (prog = "pe" /\ pe_pc \notin {"ctor", "sin", "cos"}) =>
        /\ pe_pc # "RuntimeError"
        /\ Shape2(pe_table) = <<pe_args.max_len, pe_args.d_model>>
        /\ \A pos \in 0 .. pe_args.max_len - 1 : \A k \in 0 .. pe_args.d_model - 1 :
               pe_table[pos + 1][k + 1] =
                   IF k % 2 = 0 THEN SinFx(pos * pe_div_term[(k \div 2) + 1])
                   ELSE CosFx(pos * pe_div_term[(k \div 2) + 1])

\* the minimum and the maximum of a row, by their definition
RowLo(row) == CHOOSE v \in {row[c] : c \in 1 .. Len(row)} :
                  \A c \in 1 .. Len(row) : v <= row[c]

RowHi(row) == CHOOSE v \in {row[c] : c \in 1 .. Len(row)} :
                  \A c \in 1 .. Len(row) : v >= row[c]

\* C7: normalize rescales each row of a float attention-weight matrix by
\* min-max: in a row whose maximum exceeds its minimum, out[r, c] =
\* (arr[r, c] - min_r) / (max_r - min_r), the smallest entry maps to 0, the
\* largest to 1, every entry lies in [0, 1], the order within the row is kept,
\* and the row of out depends on no other row of arr; out has the shape of arr.
C7_RowMinMax ==
    (nm_pc = "returned" /\ nm_arr.dtype = "float") =>
        /\ Shape2(nm_ret) = Shape2(nm_arr.data)
        /\ \A r \in 1 .. Len(nm_arr.data) :
               LET row == nm_arr.data[r]
                   lo == RowLo(row)
                   hi == RowHi(row)
               IN  hi > lo =>
                       /\ \A c \in 1 .. Len(row) :
                              /\ nm_ret[r][c] = RDiv((row[c] - lo) * ONE, hi - lo)
                              /\ nm_ret[r][c] >= 0
                              /\ nm_ret[r][c] <= ONE
                              /\ row[c] = lo => nm_ret[r][c] = 0
                              /\ row[c] = hi => nm_ret[r][c] = ONE
                       /\ \A c1, c2 \in 1 .. Len(row) :
                              row[c1] <= row[c2] => nm_ret[r][c1] <= nm_ret[r][c2]
                       /\ \A r2 \in 1 .. Len(nm_arr.data) :
                              nm_arr.data[r2] = row => nm_ret[r2] = nm_ret[r]

\* normalize has returned for a float matrix of two rows with different
\* minima: the second row has no zero entry
C7_Witness ==
    /\ nm_pc = "returned"
    /\ nm_arr.dtype = "float"
    /\ nm_arr.data = <<<<0, ONE \div 4, ONE>>, <<ONE, ONE \div 4, ONE \div 4>>>>
    /\ nm_ret[2] = <<ONE, 0, 0>>

\* what a step of a running call must leave alone
C8_Frame ==
    /\ enc_pc \in {"embed", "positions", "dropout", "transpose", "mask", "layers",
                   "return"} =>
           /\ enc_self' = enc_self
           /\ enc_weight' = enc_weight
           /\ src_tokens' = src_tokens
    /\ pe_pc \in {"add", "dropout"} =>
           /\ pe_table' = pe_table
           /\ pe_args' = pe_args
           /\ pe_x' = pe_x
    /\ nm_pc \in {"start", "loop"} => nm_arr' = nm_arr

\* a call repeated on the same input returns what the previous call returned
C8_Repeat ==
    /\ (enc_pc = "returned" /\ enc_prev # <<>> /\ EncDropoutOff) => enc_ret = enc_prev[1]
    /\ (pe_pc = "returned" /\ pe_prev # None /\ pe_args.dropout = 0) => pe_out = pe_prev
    /\ (nm_pc = "returned" /\ nm_prev # None) => nm_ret = nm_prev

\* C8: no state persists across calls: the two forward methods leave the
\* configuration of their module (layer list, embed_scale, padding_idx, the
\* pe table) and their input tensors (src_tokens, x, the embedding weights)
\* unchanged, and normalize leaves arr unchanged; hence, dropout disabled, a
\* call repeated with the same input returns the same result each time.
C8_NoPersistentState == [][C8_Frame]_vars /\ []C8_Repeat

\* PositionalEncoding.forward has returned a second time for the same
\* non-zero tensor, without dropout
C8_Witness ==
    /\ pe_pc = "returned"
    /\ pe_args.dropout = 0
    /\ pe_prev # None
    /\ pe_x = Ramp3(2, 2, 4)
    /\ pe_out # pe_x

\* C9: for src_tokens of shape B x T and embedding dimension C, forward
\* returns x of shape T x B x C, batch and time swapped exactly once relative
\* to the embedded B x T x C input, and a mask of shape B x T, whatever
\* fuse_dropout_add, normalization and positional embeddings are (the layers
\* keep the shape of their input).
C9_Shapes ==
    (EncInForward /\ enc_pc # "embed") =>
        LET B == Len(src_tokens)
            T == Len(src_tokens[1])
            C == Len(enc_weight[0])
        IN  /\ enc_pc \in {"positions", "dropout", "transpose"} =>
                   /\ Shape3(x) = <<B, T, C>>
                   /\ Count(enc_log, "transpose") = 0
            /\ enc_pc \in {"mask", "layers", "return", "returned"} =>
                   /\ Shape3(x) = <<T, B, C>>
                   /\ Count(enc_log, "transpose") = 1
            /\ enc_pc = "mask" =>
                   \A t \in 1 .. T : \A b \in 1 .. B : \A k \in 1 .. C :
                       x[t][b][k] = enc_snap.post_dropout[b][t][k]
            /\ enc_pc = "returned" =>
                   /\ Shape3(enc_ret.x) = <<T, B, C>>
                   /\ Shape2(enc_ret.encoder_padding_mask) = <<B, T>>

\* forward has returned for a 2 x 2 batch and C = 2, in the branch without
\* the contiguous copy, with positions, layers and normalization
C9_Witness ==
    /\ enc_pc = "returned"
    /\ Len(src_tokens) = 2
    /\ Len(src_tokens[1]) = 2
    /\ Len(enc_weight[0]) = 2
    /\ ~enc_self.fuse_dropout_add
    /\ ~x_contiguous
    /\ enc_self.normalize
    /\ enc_self.embed_positions # "None"
    /\ Len(enc_self.layers) > 0

\* C10: self.embed_positions is None exactly when
\* args.no_token_positional_embeddings is true, and forward then adds nothing:
\* the tensor entering dropout is embed_scale * embed_tokens(src_tokens);
\* otherwise a positional embedding is constructed, learned or sinusoidal
\* according to args.encoder_learned_pos, and added exactly once per call.
C10_OptionalPositions ==
    /\ enc_pc = "constructed" =>
           /\ enc_self.embed_positions = "None"
                  <=> enc_args.no_token_positional_embeddings
           /\ ~enc_args.no_token_positional_embeddings =>
                  enc_self.embed_positions =
                      IF enc_args.encoder_learned_pos THEN "learned" ELSE "sinusoidal"
    /\ (EncInForward /\ enc_pc \notin {"embed", "positions"}) =>
           IF enc_self.embed_positions = "None"
           THEN /\ enc_snap.pre_dropout =
                       Scale3(enc_self.embed_scale, EmbedTokens(enc_weight, src_tokens))
                /\ Count(enc_log, "add_positions") = 0
           ELSE /\ Count(enc_log, "add_positions") = 1
                /\ enc_snap.positions =
                       PositionalEmbedding(enc_self.embed_positions, src_tokens,
                                           enc_self.padding_idx, Len(enc_weight[0]))
                /\ enc_snap.pre_dropout = Add3(enc_snap.scaled, enc_snap.positions)

\* forward has returned for a module without positional embeddings and a
\* batch with a token that is not padding
C10_Witness ==
    /\ enc_pc = "returned"
    /\ enc_self.embed_positions = "None"
    /\ Len(enc_weight[0]) = 2
    /\ enc_snap.pre_dropout[1][1][1] # 0
    /\ enc_snap.positions = None

\* the position of the first entry v of seq, 0 when there is none
IndexOf(seq, v) ==
    IF \E i \in 1 .. Len(seq) : seq[i] = v
    THEN CHOOSE i \in 1 .. Len(seq) : seq[i] = v /\ \A j \in 1 .. i - 1 : seq[j] # v
    ELSE 0

\* what __init__ has set agrees with its arguments: self.normalize is
\* args.encoder_normalize_before and the attribute layer_norm exists iff it is
\* true, fused or not according to args.fuse_layer_norm
C11_Constructed ==
    enc_pc = "constructed" =>
        /\ enc_self.normalize = enc_args.encoder_normalize_before
        /\ enc_self.layer_norm # "absent" <=> enc_args.encoder_normalize_before
        /\ enc_args.encoder_normalize_before =>
               enc_self.layer_norm =
                   IF enc_args.fuse_layer_norm THEN "FusedLayerNorm" ELSE "LayerNorm"

\* what forward does with the flag: no AttributeError, no normalization before
\* the loop is exhausted, then one iff self.normalize, after every layer
C11_Forward ==
    /\ enc_pc # "AttributeError"
    /\ EncInForward =>
           /\ enc_self.normalize <=> enc_self.layer_norm # "absent"
           /\ enc_pc \notin {"return", "returned"} => Count(enc_log, "layer_norm") = 0
           /\ enc_pc \in {"return", "returned"} =>
                  /\ Count(enc_log, "layer_norm") = IF enc_self.normalize THEN 1 ELSE 0
                  /\ Count(enc_log, "layer") = Len(enc_self.layers)
                  /\ enc_self.normalize =>
                         /\ \A i \in 1 .. Len(enc_log) :
                                enc_log[i] = "layer" => i < IndexOf(enc_log, "layer_norm")
                         /\ x = LayerNorm(enc_snap.post_layers)
                  /\ ~enc_self.normalize => x = enc_snap.post_layers
                  /\ enc_calls # <<>> =>
                         enc_snap.post_layers = enc_calls[Len(enc_calls)].output
           /\ enc_pc = "returned" => enc_ret.x = x

\* once __init__ has run, no step changes self.normalize or self.layer_norm
C11_FlagFixed ==
    (enc_pc \notin {"off", "ctor"}) =>
        /\ enc_self'.normalize = enc_self.normalize
        /\ enc_self'.layer_norm = enc_self.layer_norm

\* C11: the final layer normalization is applied exactly once, after the last
\* encoder layer, if and only if args.encoder_normalize_before is true; when
\* it is false __init__ creates no attribute layer_norm and forward never
\* reads it, so no call raises AttributeError; the flag forward reads is the
\* one __init__ set, on the first call and on every later one.
C11_FinalLayerNorm ==
    /\ [](C11_Constructed /\ C11_Forward)
    /\ [][C11_FlagFixed]_vars

\* a second call of forward has returned for a module built without
\* normalization that has layers: nothing was normalized, nothing was raised
C11_Witness ==
    /\ enc_pc = "returned"
    /\ enc_prev # None
    /\ ~enc_self.normalize
    /\ enc_self.layer_norm = "absent"
    /\ Len(enc_self.layers) = 2
    /\ Count(enc_log, "layer_norm") = 0
    /\ enc_ret.x = enc_calls[2].output

\* C12: the padding mask forward returns is true at [b, t] exactly when
\* src_tokens[b][t] equals padding_idx, for every row b and position t, and
\* it is a full B x T tensor on every call: when no token is padding it is
\* all false, never None (None goes to the layers only).
C12_PaddingMask ==
    enc_pc = "returned" =>
        LET mask == enc_ret.encoder_padding_mask
            B == Len(src_tokens)
            T == Len(src_tokens[1])
        IN  /\ mask # None
            /\ Len(mask) = B
            /\ \A b \in 1 .. B :
                   /\ Len(mask[b]) = T
                   /\ \A t \in 1 .. T :
                          mask[b][t] <=> src_tokens[b][t] = enc_self.padding_idx
            /\ (\A b \in 1 .. B : \A t \in 1 .. T :
                    src_tokens[b][t] # enc_self.padding_idx) =>
                   /\ mask = [b \in 1 .. B |-> [t \in 1 .. T |-> FALSE]]
                   /\ layer_padding_mask = None

\* forward has returned for a 2 x 2 batch without padding, after the layers
\* were handed None as their mask: the returned mask is 2 x 2 and all false
C12_Witness ==
    /\ enc_pc = "returned"
    /\ Len(src_tokens) = 2
    /\ Len(src_tokens[1]) = 2
    /\ \A b \in 1 .. 2 : \A t \in 1 .. 2 : src_tokens[b][t] # enc_self.padding_idx
    /\ Len(enc_calls) > 0
    /\ enc_calls[1].mask = None
    /\ enc_ret.encoder_padding_mask = <<<<FALSE, FALSE>>, <<FALSE, FALSE>>>>

====
